---- MODULE Spec2Model ----
(***************************************************************************)
(* Model of src/src_python/main.py of taxicoop: the GRASP driver           *)
(* run_GRASP_heuristic with the SIGALRM time budget armed by main, and the *)
(* dataset reader read_dataset.                                            *)
(*                                                                         *)
(* The Solution class (solution.py) and travel_time (utils.py) are not in  *)
(* src/: their effect on a solution's objective and on its validation      *)
(* status is modelled from spec.md (sections 4.1-4.5, 5).                  *)
(***************************************************************************)
EXTENDS Integers, Sequences, FiniteSets, TLC

VARIABLES
    pc,               \* position of main / run_GRASP_heuristic
    nb_requests,      \* len(requests)
    time_limit,       \* args.time_limit
    alarm_left,       \* seconds until SIGALRM is delivered, 0 = no alarm pending
    elite_obj,        \* the local elite_obj of run_GRASP_heuristic
    elite_solution,   \* reference held by elite_solution, or None
    solution,         \* reference held by solution, or Unbound
    heap,             \* the Solution objects: reference -> contents
    GRASP_iterations, \* the local GRASP_iterations
    time_elapsed_it,  \* whether the local time_elapsed_it is bound
    raised,           \* exception that left run_GRASP_heuristic, or "none"
    entry_obj,        \* objective the running engine call started from
    rd_pc,            \* position of read_dataset
    table,            \* the rows of the CSV file after the header
    size,             \* the size argument of read_dataset: <<>> for None, else <<n>>
    time_window,      \* the time_window argument of read_dataset
    i,                \* the loop index of read_dataset
    dataset,          \* the local dataset of read_dataset
    dataset_sorted    \* the list returned by read_dataset

gvars == <<pc, nb_requests, time_limit, alarm_left, elite_obj, elite_solution,
           solution, heap, GRASP_iterations, time_elapsed_it, raised, entry_obj>>
rvars == <<rd_pc, table, size, time_window, i, dataset, dataset_sorted>>
vars == <<pc, nb_requests, time_limit, alarm_left, elite_obj, elite_solution,
          solution, heap, GRASP_iterations, time_elapsed_it, raised, entry_obj,
          rd_pc, table, size, time_window, i, dataset, dataset_sorted>>

(***************************************************************************)
(* Bounds                                                                  *)
(***************************************************************************)
MaxRequests == 3
MaxTimeLimit == 2
MaxIter == 2
MaxRows == 3

(***************************************************************************)
(* Solution objects                                                        *)
(***************************************************************************)
None == "None"
Unbound == "Unbound"
Refs == {"o1", "o2", "o3"}

\* A Solution object: its objective (compute_obj) and whether it has passed
\* check_UB since it was last mutated.
Blank == [obj |-> 0, checked |-> FALSE]

\* A reference no variable of the driver holds.
FreshRef == CHOOSE o \in Refs : o \notin {solution, elite_solution}

\* Objects no variable refers to any more are reclaimed.
Collect(h, live) == [o \in Refs |-> IF o \in live THEN h[o] ELSE Blank]

\* Solution(requests=requests): a new object with nothing assigned yet.
NewSolutionObject(h, ref) == [h EXCEPT ![ref] = Blank]

\* copy.deepcopy(h[src]) stored at the new reference dst.
deepcopy(h, src, dst) == [h EXCEPT ![dst] = h[src]]

\* solution.compute_obj
compute_obj(h, ref) == h[ref].obj

\* solution.check_UB(): the solution has passed validation.
check_UB(h, ref) == [h EXCEPT ![ref].checked = TRUE]

\* Contents a solution can have while an engine is mutating it.
Torn == {[obj |-> k, checked |-> FALSE] : k \in 0..nb_requests}

\* Results of build_initial_solution: any objective up to nb_requests.
BuildResults == {[obj |-> k, checked |-> FALSE] : k \in 0..nb_requests}

\* Results of local_search on a solution of objective o: never worse.
LocalSearchResults(o) == {[obj |-> k, checked |-> FALSE] : k \in o..nb_requests}

Min(a, b) == IF a <= b THEN a ELSE b

\* Results of path_relinking between objectives w (working) and e (elite):
\* objective at least the smaller of the two.
PathRelinkingResults(w, e) ==
    {[obj |-> k, checked |-> FALSE] : k \in Min(w, e)..nb_requests}

\* Contents an argument of path_relinking can have while the call runs: the
\* working solution and the elite are both passed by reference, and the path
\* can be walked from either end, so either object may be worked on in place.
PathRelinkingPartial(ref) == Torn \cup {heap[ref]}

\* Objects path_relinking can return as the best solution visited: either
\* end of the path (the working solution or the elite itself) or a new one.
PathRelinkingReturned == {solution, elite_solution, FreshRef}

(***************************************************************************)
(* main: arming the alarm                                                  *)
(***************************************************************************)
\* signal.alarm(seconds): seconds = 0 schedules no alarm.
signal_alarm(seconds) == seconds

Main ==
    /\ pc = "main"
    /\ alarm_left' = signal_alarm(time_limit)
    /\ pc' = "init"
    /\ UNCHANGED <<nb_requests, time_limit, elite_obj, elite_solution, solution,
                   heap, GRASP_iterations, time_elapsed_it, raised, entry_obj>>
    /\ UNCHANGED rvars

(***************************************************************************)
(* run_GRASP_heuristic                                                     *)
(***************************************************************************)
\* Lines 158-163: the locals before the try block.
Setup ==
    /\ pc = "init"
    /\ elite_solution' = None
    /\ elite_obj' = 0
    /\ GRASP_iterations' = 0
    /\ pc' = "loop"
    /\ UNCHANGED <<nb_requests, time_limit, alarm_left, solution, heap,
                   time_elapsed_it, raised, entry_obj>>
    /\ UNCHANGED rvars

\* Line 165: while nb_requests - elite_obj is not 0.
LoopCondition == nb_requests - elite_obj # 0

LoopTest ==
    /\ pc = "loop"
    /\ GRASP_iterations < MaxIter
    /\ pc' = IF LoopCondition THEN "new" ELSE "return"
    /\ UNCHANGED <<nb_requests, time_limit, alarm_left, elite_obj, elite_solution,
                   solution, heap, GRASP_iterations, time_elapsed_it, raised,
                   entry_obj>>
    /\ UNCHANGED rvars

\* Lines 166-168: solution = Solution(requests=requests).
NewSolution ==
    /\ pc = "new"
    /\ solution' = FreshRef
    /\ heap' = Collect(NewSolutionObject(heap, FreshRef), {FreshRef, elite_solution})
    /\ pc' = "construct"
    /\ UNCHANGED <<nb_requests, time_limit, alarm_left, elite_obj, elite_solution,
                   GRASP_iterations, time_elapsed_it, raised, entry_obj>>
    /\ UNCHANGED rvars

\* Line 169: build_initial_solution is entered and starts inserting requests.
ConstructCall ==
    /\ pc = "construct"
    /\ \E c \in Torn : heap' = [heap EXCEPT ![solution] = c]
    /\ entry_obj' = compute_obj(heap, solution)
    /\ pc' = "construct_run"
    /\ UNCHANGED <<nb_requests, time_limit, alarm_left, elite_obj, elite_solution,
                   solution, GRASP_iterations, time_elapsed_it, raised>>
    /\ UNCHANGED rvars

\* Lines 169-174: build_initial_solution returns and solution is rebound.
ConstructReturn ==
    /\ pc = "construct_run"
    /\ \E c \in BuildResults : heap' = [heap EXCEPT ![solution] = c]
    /\ entry_obj' = 0
    /\ pc' = "validate1"
    /\ UNCHANGED <<nb_requests, time_limit, alarm_left, elite_obj, elite_solution,
                   solution, GRASP_iterations, time_elapsed_it, raised>>
    /\ UNCHANGED rvars

\* Lines 175-178: check_UB after construction, obj appended to initial_objs.
Validate1 ==
    /\ pc = "validate1"
    /\ heap' = check_UB(heap, solution)
    /\ pc' = "local_search"
    /\ UNCHANGED <<nb_requests, time_limit, alarm_left, elite_obj, elite_solution,
                   solution, GRASP_iterations, time_elapsed_it, raised, entry_obj>>
    /\ UNCHANGED rvars

\* Line 179: local_search is entered; it mutates solution in place (the
\* call's value is discarded).
LocalSearchCall ==
    /\ pc = "local_search"
    /\ \E c \in Torn : heap' = [heap EXCEPT ![solution] = c]
    /\ entry_obj' = compute_obj(heap, solution)
    /\ pc' = "local_search_run"
    /\ UNCHANGED <<nb_requests, time_limit, alarm_left, elite_obj, elite_solution,
                   solution, GRASP_iterations, time_elapsed_it, raised>>
    /\ UNCHANGED rvars

\* Variant: the check_UB of line 185 is left out.
LocalSearchNextUnchecked == "branch"

\* Lines 179-183: local_search returns.
LocalSearchNext == "validate2"

LocalSearchReturn ==
    /\ pc = "local_search_run"
    /\ \E c \in LocalSearchResults(entry_obj) : heap' = [heap EXCEPT ![solution] = c]
    /\ entry_obj' = 0
    /\ pc' = LocalSearchNext
    /\ UNCHANGED <<nb_requests, time_limit, alarm_left, elite_obj, elite_solution,
                   solution, GRASP_iterations, time_elapsed_it, raised>>
    /\ UNCHANGED rvars

\* Line 185: check_UB after the first local search.
Validate2 ==
    /\ pc = "validate2"
    /\ heap' = check_UB(heap, solution)
    /\ pc' = "branch"
    /\ UNCHANGED <<nb_requests, time_limit, alarm_left, elite_obj, elite_solution,
                   solution, GRASP_iterations, time_elapsed_it, raised, entry_obj>>
    /\ UNCHANGED rvars

\* Variant: the branch of line 186 taken on the iteration counter.
HasEliteByCount == GRASP_iterations > 0

\* Line 186: if elite_solution.
HasElite == elite_solution # None

Branch ==
    /\ pc = "branch"
    /\ pc' = IF HasElite THEN "path_relink" ELSE "promote_first"
    /\ UNCHANGED <<nb_requests, time_limit, alarm_left, elite_obj, elite_solution,
                   solution, heap, GRASP_iterations, time_elapsed_it, raised,
                   entry_obj>>
    /\ UNCHANGED rvars

\* Lines 187-188: path_relinking is entered on the working solution with the
\* elite object itself as initial_solution.
PathRelinkCall ==
    /\ pc = "path_relink"
    /\ \E c \in PathRelinkingPartial(solution) :
       \E e \in PathRelinkingPartial(elite_solution) :
          heap' = [heap EXCEPT ![solution] = c, ![elite_solution] = e]
    /\ entry_obj' = Min(compute_obj(heap, solution), compute_obj(heap, elite_solution))
    /\ pc' = "path_relink_run"
    /\ UNCHANGED <<nb_requests, time_limit, alarm_left, elite_obj, elite_solution,
                   solution, GRASP_iterations, time_elapsed_it, raised>>
    /\ UNCHANGED rvars

\* Lines 188-192: path_relinking returns output_solution and solution is
\* rebound to it, without a copy.
PathRelinkReturn ==
    /\ pc = "path_relink_run"
    /\ \E out \in PathRelinkingReturned :
       \E c \in PathRelinkingResults(entry_obj, entry_obj) :
          /\ solution' = out
          /\ heap' = Collect([heap EXCEPT ![out] = c], {out, elite_solution})
    /\ entry_obj' = 0
    /\ pc' = "validate3"
    /\ UNCHANGED <<nb_requests, time_limit, alarm_left, elite_obj, elite_solution,
                   GRASP_iterations, time_elapsed_it, raised>>
    /\ UNCHANGED rvars

\* Line 193: check_UB after path relinking.
Validate3 ==
    /\ pc = "validate3"
    /\ heap' = check_UB(heap, solution)
    /\ pc' = "local_search2"
    /\ UNCHANGED <<nb_requests, time_limit, alarm_left, elite_obj, elite_solution,
                   solution, GRASP_iterations, time_elapsed_it, raised, entry_obj>>
    /\ UNCHANGED rvars

\* Lines 194-195: the second local_search is entered.
LocalSearch2Call ==
    /\ pc = "local_search2"
    /\ \E c \in Torn : heap' = [heap EXCEPT ![solution] = c]
    /\ entry_obj' = compute_obj(heap, solution)
    /\ pc' = "local_search2_run"
    /\ UNCHANGED <<nb_requests, time_limit, alarm_left, elite_obj, elite_solution,
                   solution, GRASP_iterations, time_elapsed_it, raised>>
    /\ UNCHANGED rvars

\* Lines 195-199: the second local_search returns.
LocalSearch2Return ==
    /\ pc = "local_search2_run"
    /\ \E c \in LocalSearchResults(entry_obj) : heap' = [heap EXCEPT ![solution] = c]
    /\ entry_obj' = 0
    /\ pc' = "validate4"
    /\ UNCHANGED <<nb_requests, time_limit, alarm_left, elite_obj, elite_solution,
                   solution, GRASP_iterations, time_elapsed_it, raised>>
    /\ UNCHANGED rvars

\* Line 200: check_UB after the second local search.
Validate4 ==
    /\ pc = "validate4"
    /\ heap' = check_UB(heap, solution)
    /\ pc' = "evaluate"
    /\ UNCHANGED <<nb_requests, time_limit, alarm_left, elite_obj, elite_solution,
                   solution, GRASP_iterations, time_elapsed_it, raised, entry_obj>>
    /\ UNCHANGED rvars

\* Line 201: if solution.compute_obj > elite_obj.
BetterThanElite == compute_obj(heap, solution) > elite_obj

Evaluate ==
    /\ pc = "evaluate"
    /\ pc' = IF BetterThanElite THEN "promote" ELSE "count"
    /\ UNCHANGED <<nb_requests, time_limit, alarm_left, elite_obj, elite_solution,
                   solution, heap, GRASP_iterations, time_elapsed_it, raised,
                   entry_obj>>
    /\ UNCHANGED rvars

\* elite_solution = copy.deepcopy(solution): the new reference of the elite.
PromotedRef == FreshRef

\* The heap after elite_solution = copy.deepcopy(solution).
PromotedHeap == Collect(deepcopy(heap, solution, PromotedRef), {solution, PromotedRef})

\* Line 202: elite_solution = copy.deepcopy(solution).
Promote ==
    /\ pc = "promote"
    /\ elite_solution' = PromotedRef
    /\ heap' = PromotedHeap
    /\ pc' = "count"
    /\ UNCHANGED <<nb_requests, time_limit, alarm_left, elite_obj, solution,
                   GRASP_iterations, time_elapsed_it, raised, entry_obj>>
    /\ UNCHANGED rvars

\* Line 203: GRASP_iterations += 1.
CountIteration ==
    /\ pc = "count"
    /\ GRASP_iterations' = GRASP_iterations + 1
    /\ pc' = "report"
    /\ UNCHANGED <<nb_requests, time_limit, alarm_left, elite_obj, elite_solution,
                   solution, heap, time_elapsed_it, raised, entry_obj>>
    /\ UNCHANGED rvars

\* Lines 204-205: else: elite_solution = copy.deepcopy(solution).
PromoteFirst ==
    /\ pc = "promote_first"
    /\ elite_solution' = PromotedRef
    /\ heap' = PromotedHeap
    /\ pc' = "report"
    /\ UNCHANGED <<nb_requests, time_limit, alarm_left, elite_obj, solution,
                   GRASP_iterations, time_elapsed_it, raised, entry_obj>>
    /\ UNCHANGED rvars

\* Lines 206-207: print of elite_solution.compute_obj.
Report ==
    /\ pc = "report"
    /\ pc' = "elapsed"
    /\ UNCHANGED <<nb_requests, time_limit, alarm_left, elite_obj, elite_solution,
                   solution, heap, GRASP_iterations, time_elapsed_it, raised,
                   entry_obj>>
    /\ UNCHANGED rvars

\* Line 208: time_elapsed_it = time.clock() - time_start.
Elapsed ==
    /\ pc = "elapsed"
    /\ time_elapsed_it' = TRUE
    /\ pc' = "loop"
    /\ UNCHANGED <<nb_requests, time_limit, alarm_left, elite_obj, elite_solution,
                   solution, heap, GRASP_iterations, raised, entry_obj>>
    /\ UNCHANGED rvars

(***************************************************************************)
(* The time budget: SIGALRM and its handler                                *)
(***************************************************************************)
\* Positions inside the try block (lines 165-208).
TryPcs == {"loop", "new", "construct", "construct_run", "validate1",
           "local_search", "local_search_run", "validate2", "branch",
           "path_relink", "path_relink_run", "validate3", "local_search2",
           "local_search2_run", "validate4", "evaluate", "promote", "count",
           "promote_first", "report", "elapsed"}

\* Positions of run_GRASP_heuristic outside the try block.
OutsidePcs == {"init", "return"}

\* A second of the budget goes by while the driver is running.
Tick ==
    /\ pc \in TryPcs \cup OutsidePcs
    /\ alarm_left > 1
    /\ alarm_left' = alarm_left - 1
    /\ UNCHANGED <<pc, nb_requests, time_limit, elite_obj, elite_solution, solution,
                   heap, GRASP_iterations, time_elapsed_it, raised, entry_obj>>
    /\ UNCHANGED rvars

\* Lines 379-380: the alarm goes off and handler raises RuntimeError at the
\* driver's current position; inside the try block line 210 catches it.
Interrupt ==
    /\ pc \in TryPcs \cup OutsidePcs
    /\ alarm_left = 1
    /\ alarm_left' = 0
    /\ IF pc \in TryPcs
       THEN pc' = "except" /\ raised' = raised
       ELSE pc' = "done" /\ raised' = "RuntimeError"
    /\ UNCHANGED <<nb_requests, time_limit, elite_obj, elite_solution, solution,
                   heap, GRASP_iterations, time_elapsed_it, entry_obj>>
    /\ UNCHANGED rvars

\* Line 211: if solution.compute_obj > elite_solution.compute_obj.
HandlerPromotes ==
    compute_obj(heap, solution) > compute_obj(heap, elite_solution)

\* Lines 210-213: the except clause.
Except ==
    /\ pc = "except"
    /\ IF solution = Unbound
       THEN /\ raised' = "UnboundLocalError"
            /\ pc' = "done"
            /\ UNCHANGED <<elite_solution, heap>>
       ELSE IF elite_solution = None
       THEN /\ raised' = "AttributeError"
            /\ pc' = "done"
            /\ UNCHANGED <<elite_solution, heap>>
       ELSE IF HandlerPromotes
       THEN /\ elite_solution' = PromotedRef
            /\ heap' = PromotedHeap
            /\ pc' = "return"
            /\ raised' = raised
       ELSE /\ pc' = "return"
            /\ UNCHANGED <<elite_solution, heap, raised>>
    /\ UNCHANGED <<nb_requests, time_limit, alarm_left, elite_obj, solution,
                   GRASP_iterations, time_elapsed_it, entry_obj>>
    /\ UNCHANGED rvars

\* Lines 215-219: the statistics record is filled and the triple returned;
\* line 217 reads time_elapsed_it.
Return ==
    /\ pc = "return"
    /\ raised' = IF time_elapsed_it THEN raised ELSE "UnboundLocalError"
    /\ pc' = "done"
    /\ UNCHANGED <<nb_requests, time_limit, alarm_left, elite_obj, elite_solution,
                   solution, heap, GRASP_iterations, time_elapsed_it, entry_obj>>
    /\ UNCHANGED rvars

(***************************************************************************)
(* Specification of the driver                                             *)
(***************************************************************************)
ReadIdle ==
    /\ rd_pc = "idle"
    /\ table = <<>>
    /\ size = <<>>
    /\ time_window = 0
    /\ i = 0
    /\ dataset = <<>>
    /\ dataset_sorted = <<>>

Init ==
    /\ pc = "main"
    /\ nb_requests \in 0..MaxRequests
    /\ time_limit \in 0..MaxTimeLimit
    /\ alarm_left = 0
    /\ elite_obj = 0
    /\ elite_solution = None
    /\ solution = Unbound
    /\ heap = [o \in Refs |-> Blank]
    /\ GRASP_iterations = 0
    /\ time_elapsed_it = FALSE
    /\ raised = "none"
    /\ entry_obj = 0
    /\ ReadIdle

Next ==
    \/ Main
    \/ Setup
    \/ LoopTest
    \/ NewSolution
    \/ ConstructCall
    \/ ConstructReturn
    \/ Validate1
    \/ LocalSearchCall
    \/ LocalSearchReturn
    \/ Validate2
    \/ Branch
    \/ PathRelinkCall
    \/ PathRelinkReturn
    \/ Validate3
    \/ LocalSearch2Call
    \/ LocalSearch2Return
    \/ Validate4
    \/ Evaluate
    \/ Promote
    \/ CountIteration
    \/ PromoteFirst
    \/ Report
    \/ Elapsed
    \/ Tick
    \/ Interrupt
    \/ Except
    \/ Return

Spec == Init /\ [][Next]_vars

(***************************************************************************)
(* read_dataset                                                            *)
(***************************************************************************)
\* A row of the CSV file: the clock time of column 1 as <<hh, mm, ss>>, the
\* pickup coordinates of columns 5-6 and the dropoff coordinates of 9-10.
Times == {<<0, 59, 30>>, <<1, 0, 0>>}
PickUps == {<<0, 1>>, <<1, 1>>, <<1, 2>>}
DropOffs == {<<1, 0>>, <<1, 2>>, <<1, 4>>}
Rows == [time : Times, PU : PickUps, DO : DropOffs]
TimeWindows == {5, 15}

RECURSIVE Tables(_)
Tables(n) ==
    IF n = 0 THEN {<<>>}
    ELSE Tables(n - 1) \cup {Append(t, r) : t \in {u \in Tables(n - 1) : Len(u) = n - 1}, r \in Rows}

\* Lines 97-103: datetime(val), seconds since midnight.
datetime(val) == val[1] * 3600 + val[2] * 60 + val[3]

Abs(x) == IF x < 0 THEN -x ELSE x

\* Seconds of travel per unit of distance at the constant speed.
SecondsPerUnit == 21600

\* utils.travel_time: geometric distance at constant speed.
travel_time(p, q) == (Abs(p[1] - q[1]) + Abs(p[2] - q[2])) * SecondsPerUnit

\* Lines 111-116.
PU_datetime(row) == datetime(row.time)
DO_datetime(row) == PU_datetime(row) + travel_time(row.PU, row.DO)

\* Lines 118-122: the request built from a row.
MakeRequest(row, tw) ==
    << <<PU_datetime(row) - tw * 60, PU_datetime(row)>>,
       <<DO_datetime(row), DO_datetime(row) + tw * 60>>,
       row.PU, row.DO >>

\* Line 125.
null_coordinates(row) ==
    \/ 0 \in {row.PU[1], row.PU[2]}
    \/ 0 \in {row.DO[1], row.DO[2]}

\* Variant: a trip of exactly 12 hours is rejected too.
coordinates_too_far_inclusive(row) == DO_datetime(row) - PU_datetime(row) >= 12 * 3600

\* Line 126.
coordinates_too_far(row) == DO_datetime(row) - PU_datetime(row) > 12 * 3600

\* Line 127.
same_DO_PU_coordinates(row) == row.PU = row.DO

\* Line 128.
Kept(row) ==
    /\ ~null_coordinates(row)
    /\ ~coordinates_too_far(row)
    /\ ~same_DO_PU_coordinates(row)

\* Line 132: the sort key x[0][0], the start of the pickup window.
SortKey(x) == x[1][1]

\* x placed after every element of the sorted s whose key is not greater.
RECURSIVE InsertSorted(_, _)
InsertSorted(x, s) ==
    IF s = <<>> THEN <<x>>
    ELSE IF SortKey(s[Len(s)]) <= SortKey(x) THEN Append(s, x)
    ELSE Append(InsertSorted(x, SubSeq(s, 1, Len(s) - 1)), s[Len(s)])

\* Line 132: sorted(dataset, key=...), a stable ascending sort.
RECURSIVE sorted(_)
sorted(s) ==
    IF s = <<>> THEN <<>>
    ELSE InsertSorted(s[Len(s)], sorted(SubSeq(s, 1, Len(s) - 1)))

\* Lines 90-91: without a size, size is the number of lines of the file,
\* the header included.
ResolvedSize(sz, tbl) == IF sz = <<>> \/ sz[1] = 0 THEN <<Len(tbl) + 1>> ELSE sz

\* Lines 88-95: the file is opened, size resolved, the header skipped.
OpenFile ==
    /\ rd_pc = "start"
    /\ size' = ResolvedSize(size, table)
    /\ dataset' = <<>>
    /\ i' = 0
    /\ rd_pc' = "loop"
    /\ UNCHANGED <<table, time_window, dataset_sorted>>
    /\ UNCHANGED gvars

\* Lines 105-129: one row is read, converted and filtered.
ReadRow ==
    /\ rd_pc = "loop"
    /\ i < Len(table)
    /\ ~(i >= size[1])
    /\ dataset' = IF Kept(table[i + 1])
                  THEN Append(dataset, MakeRequest(table[i + 1], time_window))
                  ELSE dataset
    /\ i' = i + 1
    /\ UNCHANGED <<rd_pc, table, size, time_window, dataset_sorted>>
    /\ UNCHANGED gvars

\* Lines 105, 108-109: the rows are exhausted or i has reached size.
EndLoop ==
    /\ rd_pc = "loop"
    /\ (i >= Len(table) \/ i >= size[1])
    /\ rd_pc' = "sort"
    /\ UNCHANGED <<table, size, time_window, i, dataset, dataset_sorted>>
    /\ UNCHANGED gvars

\* Lines 132-137: the dataset is sorted and returned.
SortAndReturn ==
    /\ rd_pc = "sort"
    /\ dataset_sorted' = sorted(dataset)
    /\ rd_pc' = "done"
    /\ UNCHANGED <<table, size, time_window, i, dataset>>
    /\ UNCHANGED gvars

DriverIdle ==
    /\ pc = "idle"
    /\ nb_requests = 0
    /\ time_limit = 0
    /\ alarm_left = 0
    /\ elite_obj = 0
    /\ elite_solution = None
    /\ solution = Unbound
    /\ heap = [o \in Refs |-> Blank]
    /\ GRASP_iterations = 0
    /\ time_elapsed_it = FALSE
    /\ raised = "none"
    /\ entry_obj = 0

InitRead ==
    /\ rd_pc = "start"
    /\ table \in Tables(MaxRows)
    /\ size \in {<<>>} \cup {<<n>> : n \in 0..(MaxRows + 1)}
    /\ time_window \in TimeWindows
    /\ i = 0
    /\ dataset = <<>>
    /\ dataset_sorted = <<>>
    /\ DriverIdle

NextRead ==
    \/ OpenFile
    \/ ReadRow
    \/ EndLoop
    \/ SortAndReturn

SpecRead == InitRead /\ [][NextRead]_vars

(***************************************************************************)
(* Properties of the driver                                                *)
(***************************************************************************)
\* Whether the alarm armed by main has gone off.
AlarmFired == time_limit > 0 /\ alarm_left = 0 /\ pc \notin {"main", "idle"}

\* C1: once an elite exists, a step that replaces it never lowers the elite's
\* objective: the elite is replaced only by a solution of greater or equal
\* objective than the elite it replaces. The elite replaced is taken as it
\* was promoted (validated and not touched since), so that the comparison of
\* the driver alone decides.
C1_EliteObjectiveNeverDecreases ==
    [][(elite_solution # None /\ elite_solution' # None
            /\ elite_solution' # elite_solution
            /\ heap[elite_solution].checked)
         => compute_obj(heap', elite_solution') >= compute_obj(heap, elite_solution)]_vars

\* C2: the solution run_GRASP_heuristic returns has passed validation since
\* its last mutation, whenever the time budget expired.
C2_ReturnedEliteValidated ==
    (pc = "done" /\ raised = "none" /\ elite_solution # None)
        => heap[elite_solution].checked

\* C3: when the driver stops inside or after the loop with no elite (budget
\* expired in the first iteration, or empty request set), it returns without
\* raising.
C3_NoEliteReturnsWithoutException ==
    (pc = "done" /\ elite_solution = None /\ raised # "RuntimeError")
        => raised = "none"

\* C4: no iteration is started once the elite's objective equals the number
\* of requests.
C4_StopsAtPerfectObjective ==
    pc = "new"
        => ~(elite_solution # None /\ compute_obj(heap, elite_solution) = nb_requests)

\* C5: with a time budget of 0 and a non-empty request set the driver starts
\* no iteration and returns an empty result without raising.
C5_ZeroBudgetReturnsImmediately ==
    (time_limit = 0 /\ nb_requests > 0)
        => /\ pc \in {"main", "init", "loop", "return", "done"}
           /\ (pc = "done" => raised = "none" /\ elite_solution = None)

OrderedSuccessors(p, elite) ==
    CASE p = "loop" -> {"new", "return"}
      [] p = "new" -> {"construct"}
      [] p = "construct" -> {"construct_run"}
      [] p = "construct_run" -> {"validate1"}
      [] p = "validate1" -> {"local_search"}
      [] p = "local_search" -> {"local_search_run"}
      [] p = "local_search_run" -> {"validate2"}
      [] p = "validate2" -> {"branch"}
      [] p = "branch" -> IF elite THEN {"path_relink"} ELSE {"promote_first"}
      [] p = "path_relink" -> {"path_relink_run"}
      [] p = "path_relink_run" -> {"validate3"}
      [] p = "validate3" -> {"local_search2"}
      [] p = "local_search2" -> {"local_search2_run"}
      [] p = "local_search2_run" -> {"validate4"}
      [] p = "validate4" -> {"evaluate"}
      [] p = "evaluate" -> {"promote", "count"}
      [] p = "promote" -> {"count"}
      [] p = "count" -> {"report"}
      [] p = "promote_first" -> {"report"}
      [] p = "report" -> {"elapsed"}
      [] p = "elapsed" -> {"loop"}
      [] OTHER -> {}

\* C7: every uninterrupted step of an iteration follows the order CONSTRUCT,
\* VALIDATE, LOCAL_SEARCH, PATH_RELINK if and only if an elite exists,
\* EVALUATE, PROMOTE_ELITE, loop; without an elite path relinking is skipped.
C7_IterationOrder ==
    [][(pc \in TryPcs /\ pc' # pc /\ pc' \notin {"except", "done"})
         => pc' \in OrderedSuccessors(pc, elite_solution # None)]_vars

\* C7 witness: a second iteration has gone through path relinking and is
\* about to promote, after a first iteration that skipped it.
C7_Witness ==
    /\ pc = "promote"
    /\ elite_solution # None
    /\ GRASP_iterations = 0

\* C8: at every mutating step after construction and at every promotion of
\* the loop body, the working solution has passed check_UB since its last
\* mutation.
C8_ValidatedBeforeNextStep ==
    pc \in {"local_search", "path_relink", "local_search2", "evaluate",
            "promote", "promote_first"}
        => heap[solution].checked

\* C8 witness: a solution that went through construction, two local searches
\* and path relinking is about to be promoted.
C8_Witness ==
    /\ pc = "promote"
    /\ heap[solution].checked
    /\ compute_obj(heap, solution) > 0

\* C10: when the alarm goes off while an elite exists, the driver returns,
\* and what it returns is the better of the elite and the working solution.
C10_InterruptReturnsBest ==
    (pc = "done" /\ AlarmFired /\ elite_solution # None)
        => /\ raised = "none"
           /\ compute_obj(heap, elite_solution) >= compute_obj(heap, solution)

\* C11: when run_GRASP_heuristic returns after at least one iteration ran to
\* completion (line 208 reached), the iteration count of the statistics
\* record counts that iteration too, so it is at least 1.
C11_IterationCountCountsCompleted ==
    (pc = "done" /\ raised = "none" /\ time_elapsed_it /\ elite_solution # None)
        => GRASP_iterations >= 1

(***************************************************************************)
(* Properties of read_dataset                                              *)
(***************************************************************************)
\* The rows the loop has read: the first size rows of the table.
ReadRows == SubSeq(table, 1, Min(size[1], Len(table)))

\* A row has no zero coordinate, distinct pickup and dropoff locations and a
\* direct trip of at most 12 hours.
Acceptable(row) ==
    /\ row.PU[1] # 0 /\ row.PU[2] # 0 /\ row.DO[1] # 0 /\ row.DO[2] # 0
    /\ row.PU # row.DO
    /\ travel_time(row.PU, row.DO) <= 43200

Occurrences(s, x) == Cardinality({k \in DOMAIN s : s[k] = x})

\* C9: the returned list holds exactly the requests of the read rows that
\* are acceptable, each as often as its row was read, in ascending order of
\* pickup-window start.
C9_ReadDatasetFiltersAndSorts ==
    rd_pc = "done"
        => /\ \A r \in Rows :
                Occurrences(dataset_sorted, MakeRequest(r, time_window))
                    = IF Acceptable(r) THEN Occurrences(ReadRows, r) ELSE 0
           /\ Len(dataset_sorted)
                = Cardinality({k \in DOMAIN ReadRows : Acceptable(ReadRows[k])})
           /\ \A k \in 1..(Len(dataset_sorted) - 1) :
                dataset_sorted[k][1][1] <= dataset_sorted[k + 1][1][1]

\* C9 witness: a rejected row and a trip of exactly 12 hours were read, and
\* the two kept rows were reordered by the sort.
C9_Witness ==
    /\ rd_pc = "done"
    /\ Len(dataset_sorted) = 2
    /\ dataset # dataset_sorted
    /\ \E k \in 1..i : travel_time(table[k].PU, table[k].DO) = 43200
    /\ \E k \in 1..i : ~Acceptable(table[k])

====
